---- MODULE Spec2Model ----
(***************************************************************************)
(* A2A chicken food safety: the service endpoint (server.py) and the       *)
(* requester (client.py), modelled as state machines over JSON-like        *)
(* values.                                                                 *)
(*                                                                         *)
(* Strings that the code inspects character by character (food items) are  *)
(* sequences of one-character strings.  Every other JSON value is a        *)
(* record with a "kind" field naming its Python type after decoding.       *)
(* None / null identifiers are the number 0; uuid4 values are 1..MaxId.    *)
(***************************************************************************)
EXTENDS Integers, Sequences, FiniteSets, TLC

VARIABLES
    spc,          \* position of the running chicken_food_safety() call
    inbound,      \* the HTTP request being handled by the service
    request_msg,  \* local of chicken_food_safety (Unbound before line 120)
    is_valid,     \* local of chicken_food_safety (line 124)
    error_msg,    \* local of chicken_food_safety (line 124)
    result,       \* local of chicken_food_safety (line 138)
    handlerCalls, \* number of check_food_safety calls made for this message
    validated,    \* validate_a2a_request returned (did not raise) for it
    faultAt,      \* the line whose exception entered the except clause
    http,         \* what the endpoint returned to the transport
    cpc,          \* position of the running client check_food_safety() call
    cfood,        \* its food_item argument
    creq,         \* its request_msg local
    sends,        \* number of requests.post calls made by this call
    reply,        \* what requests.post produced
    outcome,      \* the (result, error) pair the call returned
    fpc,          \* position of a direct call of the pure functions
    fa,           \* the food_item argument of a direct call
    fout,         \* what check_food_safety returned for it
    freq,         \* what create_a2a_request returned for it
    fverdict,     \* what validate_a2a_request returned for freq
    fargs,        \* the success, result, error arguments of a direct
                  \* create_a2a_response call
    fresp,        \* what create_a2a_response returned for freq, fargs
    workers,      \* the locals of each concurrently running
                  \* chicken_food_safety() call
    safe_foods,   \* module global SAFE_FOODS
    unsafe_foods  \* module global UNSAFE_FOODS

vars == << spc, inbound, request_msg, is_valid, error_msg, result,
           handlerCalls, validated, faultAt, http,
           cpc, cfood, creq, sends, reply, outcome,
           fpc, fa, fout, freq, fverdict, fargs, fresp,
           workers, safe_foods, unsafe_foods >>

svars == << spc, inbound, request_msg, is_valid, error_msg, result,
            handlerCalls, validated, faultAt, http >>
cvars == << cpc, cfood, creq, sends, reply, outcome >>
fvars == << fpc, fa, fout, freq, fverdict, fargs, fresp >>
wvars == << workers, safe_foods, unsafe_foods >>

(***************************************************************************)
(* Bounds                                                                  *)
(***************************************************************************)
\* number of distinct uuid4 values
MaxId == 2
\* longest run of whitespace put before and after a food name
MaxPad == 1
\* number of requests the server handles at the same time
NumWorkers == 2

(***************************************************************************)
(* Characters and str methods                                              *)
(***************************************************************************)
UPPER == << "A", "B", "C", "D", "E", "F", "G", "H", "I", "J", "K", "L", "M",
            "N", "O", "P", "Q", "R", "S", "T", "U", "V", "W", "X", "Y", "Z" >>
LOWER == << "a", "b", "c", "d", "e", "f", "g", "h", "i", "j", "k", "l", "m",
            "n", "o", "p", "q", "r", "s", "t", "u", "v", "w", "x", "y", "z" >>

\* the ASCII characters str.strip() removes
Whitespace == { " ", "\t", "\n", "\r", "\f" }

LowerChar(c) ==
    IF \E i \in 1..Len(UPPER) : UPPER[i] = c
    THEN LOWER[CHOOSE i \in 1..Len(UPPER) : UPPER[i] = c]
    ELSE c

UpperChar(c) ==
    IF \E i \in 1..Len(LOWER) : LOWER[i] = c
    THEN UPPER[CHOOSE i \in 1..Len(LOWER) : LOWER[i] = c]
    ELSE c

\* str.lower()
Lower(s) == [i \in 1..Len(s) |-> LowerChar(s[i])]

SetMin(S) == CHOOSE m \in S : \A k \in S : m <= k
SetMax(S) == CHOOSE m \in S : \A k \in S : k <= m

\* str.strip() with no argument
Strip(s) ==
    LET keep == { i \in 1..Len(s) : s[i] \notin Whitespace }
    IN  IF keep = {} THEN << >> ELSE SubSeq(s, SetMin(keep), SetMax(keep))

(***************************************************************************)
(* The food tables                                                         *)
(***************************************************************************)
SAFE_FOODS ==
    { <<"c", "o", "r", "n">>,
      <<"w", "h", "e", "a", "t">>,
      <<"o", "a", "t", "s">>,
      <<"b", "a", "r", "l", "e", "y">>,
      <<"r", "i", "c", "e">>,
      <<"q", "u", "i", "n", "o", "a">>,
      <<"m", "i", "l", "l", "e", "t">>,
      <<"l", "e", "t", "t", "u", "c", "e">>,
      <<"s", "p", "i", "n", "a", "c", "h">>,
      <<"k", "a", "l", "e">>,
      <<"c", "a", "b", "b", "a", "g", "e">>,
      <<"b", "r", "o", "c", "c", "o", "l", "i">>,
      <<"c", "a", "r", "r", "o", "t", "s">>,
      <<"p", "e", "a", "s">>,
      <<"g", "r", "e", "e", "n", " ", "b", "e", "a", "n", "s">>,
      <<"s", "q", "u", "a", "s", "h">>,
      <<"p", "u", "m", "p", "k", "i", "n">>,
      <<"c", "u", "c", "u", "m", "b", "e", "r">>,
      <<"t", "o", "m", "a", "t", "o", "e", "s">>,
      <<"b", "e", "l", "l", " ", "p", "e", "p", "p", "e", "r", "s">>,
      <<"z", "u", "c", "c", "h", "i", "n", "i">>,
      <<"s", "w", "e", "e", "t", " ", "p", "o", "t", "a", "t", "o">>,
      <<"a", "p", "p", "l", "e", "s">>,
      <<"b", "e", "r", "r", "i", "e", "s">>,
      <<"g", "r", "a", "p", "e", "s">>,
      <<"m", "e", "l", "o", "n">>,
      <<"b", "a", "n", "a", "n", "a">>,
      <<"c", "h", "i", "c", "k", "e", "n", " ", "f", "e", "e", "d">>,
      <<"l", "a", "y", "e", "r", " ", "f", "e", "e", "d">>,
      <<"s", "c", "r", "a", "t", "c", "h", " ", "g", "r", "a", "i", "n", "s">>,
      <<"s", "u", "n", "f", "l", "o", "w", "e", "r", " ", "s", "e", "e", "d", "s">>,
      <<"p", "u", "m", "p", "k", "i", "n", " ", "s", "e", "e", "d", "s">>,
      <<"h", "e", "r", "b", "s">>,
      <<"c", "l", "o", "v", "e", "r">> }

UNSAFE_FOODS ==
    { <<"c", "h", "o", "c", "o", "l", "a", "t", "e">>,
      <<"a", "v", "o", "c", "a", "d", "o">>,
      <<"o", "n", "i", "o", "n", "s">>,
      <<"g", "a", "r", "l", "i", "c">>,
      <<"m", "u", "s", "h", "r", "o", "o", "m", "s">>,
      <<"r", "a", "w", " ", "b", "e", "a", "n", "s">>,
      <<"r", "a", "w", " ", "p", "o", "t", "a", "t", "o", "e", "s">>,
      <<"g", "r", "e", "e", "n", " ", "t", "o", "m", "a", "t", "o", "e", "s">>,
      <<"r", "h", "u", "b", "a", "r", "b">>,
      <<"a", "p", "p", "l", "e", " ", "s", "e", "e", "d", "s">>,
      <<"c", "h", "e", "r", "r", "y", " ", "p", "i", "t", "s">>,
      <<"c", "a", "f", "f", "e", "i", "n", "e">>,
      <<"a", "l", "c", "o", "h", "o", "l">>,
      <<"m", "o", "l", "d", "y", " ", "f", "o", "o", "d">>,
      <<"s", "a", "l", "t", "y", " ", "s", "n", "a", "c", "k", "s">>,
      <<"c", "a", "n", "d", "y">>,
      <<"p", "r", "o", "c", "e", "s", "s", "e", "d", " ", "f", "o", "o", "d">> }

(***************************************************************************)
(* JSON values after decoding.  "kind" is the Python type; "has" is the    *)
(* set of keys of a dict (for a list or a str: the names x among the keys  *)
(* the code tests for which Python's "x in value" is true).                *)
(***************************************************************************)
StrFood(s) == [kind |-> "str", s |-> s]
OtherFood(k) == [kind |-> k, s |-> << >>]
NoFood == OtherFood("absent")

NoMessage == [tpl |-> "", arg |-> NoFood]
NoneResult ==
    [kind |-> "NoneType", has |-> {}, food_item |-> NoFood, is_safe |-> "",
     status |-> "", message |-> NoMessage]

NoneError == [kind |-> "NoneType", has |-> {}, code |-> "", message |-> ""]
ErrorDict(code, message) ==
    [kind |-> "dict", has |-> {"code", "message"}, code |-> code,
     message |-> message]

NoPayload ==
    [kind |-> "absent", has |-> {}, service |-> "", food_item |-> NoFood,
     success |-> "", result |-> NoneResult, error |-> NoneError]

NoneId == 0
EmptyDict ==
    [kind |-> "dict", has |-> {}, id |-> NoneId, type |-> "",
     correlation_id |-> NoneId, sender |-> "", recipient |-> "",
     payload |-> NoPayload]
Unbound == [EmptyDict EXCEPT !.kind = "unbound"]

\* bool(x) for the values the code tests for truth
Truthy(v) == v.kind \notin {"NoneType", "absent"} /\ v.has # {}
BoolTok(b) == IF b THEN "True" ELSE "False"

\* "key in value": TypeError for values that are not containers
InRaises(v) == v.kind \notin {"dict", "list", "str"}
In(key, v) == key \in v.has
\* value[key] with a str key: only a dict supports it
SubscriptRaises(v) == v.kind # "dict"
\* value.get(key): only a dict has the method
GetRaises(v) == v.kind # "dict"

(***************************************************************************)
(* server.py                                                               *)
(***************************************************************************)
SERVICE_NAME == "chicken_food_safety_check"
SERVICE_AGENT == "chicken-food-safety-service"

ResultDict(food_item, is_safe, status, tpl) ==
    [kind |-> "dict", has |-> {"food_item", "is_safe", "status", "message"},
     food_item |-> food_item, is_safe |-> is_safe, status |-> status,
     message |-> [tpl |-> tpl, arg |-> food_item]]

\* lines 90-110: the if / elif / else on food_lower, given the values of
\* the globals SAFE_FOODS and UNSAFE_FOODS
ClassifyIn(safe, unsafe, food_lower, food_item) ==
    IF food_lower \in safe
    THEN ResultDict(food_item, "True", "safe",
                    "{} is safe for chickens to eat.")
    ELSE IF food_lower \in unsafe
    THEN ResultDict(food_item, "False", "unsafe",
                    "{} is NOT safe for chickens and should be avoided.")
    ELSE ResultDict(food_item, "None", "unknown",
           "Safety information for {} is not available. Please consult a veterinarian.")

Classify(food_lower, food_item) ==
    ClassifyIn(SAFE_FOODS, UNSAFE_FOODS, food_lower, food_item)

\* faulty variant: food_lower = food_item.lower(), the strip() forgotten
check_food_safety_no_strip(food_item) ==
    IF food_item.kind # "str"
    THEN [raised |-> TRUE, value |-> NoneResult]
    ELSE [raised |-> FALSE,
          value |-> Classify(Lower(food_item.s), food_item)]

\* faulty variant: food_lower = food_item.strip(), the lower() forgotten
check_food_safety_no_lower(food_item) ==
    IF food_item.kind # "str"
    THEN [raised |-> TRUE, value |-> NoneResult]
    ELSE [raised |-> FALSE,
          value |-> Classify(Strip(food_item.s), food_item)]

\* check_food_safety reading the globals as they are when it runs
check_food_safety_in(safe, unsafe, food_item) ==
    IF food_item.kind # "str"
    THEN [raised |-> TRUE, value |-> NoneResult]
    ELSE [raised |-> FALSE,
          value |-> ClassifyIn(safe, unsafe, Strip(Lower(food_item.s)),
                               food_item)]

\* food_item.lower().strip(): AttributeError unless food_item is a str
check_food_safety(food_item) ==
    IF food_item.kind # "str"
    THEN [raised |-> TRUE, value |-> NoneResult]
    ELSE [raised |-> FALSE,
          value |-> Classify(Strip(Lower(food_item.s)), food_item)]

\* lines 39-62: the response dict, given the value put in correlation_id;
\* new_id stands for str(uuid.uuid4())
ResponseDict(msg, success, res, error, new_id, correlation_id) ==
    [kind |-> "dict",
     has |-> {"version", "id", "timestamp", "type", "correlation_id",
              "sender", "recipient", "payload"},
     id |-> new_id,
     type |-> "response",
     correlation_id |-> correlation_id,
     sender |-> SERVICE_AGENT,
     recipient |-> IF In("sender", msg) THEN msg.sender ELSE "{}",
     payload |->
       [kind |-> "dict",
        has |-> {"success", "service"}
                \cup (IF success /\ res.kind # "NoneType"
                      THEN {"result"}
                      ELSE IF ~success /\ Truthy(error)
                      THEN {"error"}
                      ELSE {}),
        service |-> SERVICE_NAME,
        food_item |-> NoFood,
        success |-> BoolTok(success),
        result |-> IF success /\ res.kind # "NoneType"
                   THEN res ELSE NoneResult,
        error |-> IF ~success /\ Truthy(error)
                  THEN error ELSE NoneError]]

\* faulty variant: "correlation_id" is given the response's own id
create_a2a_response_own_id(msg, success, res, error, new_id) ==
    IF GetRaises(msg)
    THEN [raised |-> TRUE, value |-> Unbound]
    ELSE [raised |-> FALSE,
          value |-> ResponseDict(msg, success, res, error, new_id, new_id)]

\* request_msg.get(...) raises AttributeError unless request_msg is a dict
create_a2a_response(msg, success, res, error, new_id) ==
    IF GetRaises(msg)
    THEN [raised |-> TRUE, value |-> Unbound]
    ELSE [raised |-> FALSE,
          value |-> ResponseDict(msg, success, res, error, new_id,
                        IF In("id", msg) THEN msg.id ELSE NoneId)]

required_fields ==
    << "version", "id", "timestamp", "type", "sender", "payload" >>

NoReason == "<None>"
Verdict(raised, ok, reason) ==
    [raised |-> raised, is_valid |-> ok, error_msg |-> reason]

validate_a2a_request(msg) ==
    LET missing == { i \in 1..Len(required_fields) :
                        ~In(required_fields[i], msg) }
    IN  IF InRaises(msg) THEN Verdict(TRUE, FALSE, NoReason)
        ELSE IF missing # {}
        THEN Verdict(FALSE, FALSE, "Missing required field: "
                                   \o required_fields[SetMin(missing)])
        ELSE IF SubscriptRaises(msg) THEN Verdict(TRUE, FALSE, NoReason)
        ELSE IF msg.type # "request"
        THEN Verdict(FALSE, FALSE, "Message type must be 'request'")
        ELSE IF InRaises(msg.payload) THEN Verdict(TRUE, FALSE, NoReason)
        ELSE IF ~In("service", msg.payload)
        THEN Verdict(FALSE, FALSE, "Missing 'service' in payload")
        ELSE IF SubscriptRaises(msg.payload)
        THEN Verdict(TRUE, FALSE, NoReason)
        ELSE IF msg.payload.service # SERVICE_NAME
        THEN Verdict(FALSE, FALSE, "Unknown service requested")
        ELSE IF ~In("food_item", msg.payload)
        THEN Verdict(FALSE, FALSE, "Missing 'food_item' in payload")
        ELSE Verdict(FALSE, TRUE, NoReason)

(***************************************************************************)
(* Inputs                                                                  *)
(***************************************************************************)
PadChars == { " ", "\t" }
Pads == UNION { [1..k -> PadChars] : k \in 0..MaxPad }

Masks(n) == { {}, 1..n } \cup { {i} : i \in 1..n } \cup { 1..i : i \in 1..n }
Cased(w, m) == [i \in 1..Len(w) |-> IF i \in m THEN UpperChar(w[i]) ELSE w[i]]

Kale == << "k", "a", "l", "e" >>
Chocolate == << "c", "h", "o", "c", "o", "l", "a", "t", "e" >>
Durian == << "d", "u", "r", "i", "a", "n" >>
RawBeans == << "r", "a", "w", " ", "b", "e", "a", "n", "s" >>
SampleWords == { Kale, Chocolate, Durian, RawBeans, << >> }

FoodStrings ==
    UNION { { p \o Cased(w, m) \o q :
                p \in Pads, q \in Pads, m \in Masks(Len(w)) } :
            w \in SampleWords }

FoodItems ==
    { StrFood(s) : s \in FoodStrings }
    \cup { OtherFood(k) : k \in {"int", "NoneType", "list", "dict", "bool"} }

\* food items used where the shape of the envelope is what varies
ShapeFoods ==
    { StrFood(Kale), StrFood(<< >>), OtherFood("int"), OtherFood("NoneType") }

Ids == 1..MaxId
CLIENT_AGENT == "chicken-food-safety-client"

PayloadDict(has, service, food_item) ==
    [NoPayload EXCEPT !.kind = "dict", !.has = has,
        !.service = IF "service" \in has THEN service ELSE "",
        !.food_item = IF "food_item" \in has THEN food_item ELSE NoFood]

RequestPayloads ==
    { PayloadDict(h, s, f) :
        h \in SUBSET {"service", "food_item"},
        s \in {SERVICE_NAME, "other_service"}, f \in ShapeFoods }
    \cup { [NoPayload EXCEPT !.kind = k] : k \in {"NoneType", "int"} }
    \cup { [NoPayload EXCEPT !.kind = k, !.has = h] :
             k \in {"list", "str"},
             h \in { {}, {"service"}, {"service", "food_item"} } }

RequestDict(has, id, type, sender, payload) ==
    [EmptyDict EXCEPT !.has = has,
        !.id = IF "id" \in has THEN id ELSE NoneId,
        !.type = IF "type" \in has THEN type ELSE "",
        !.sender = IF "sender" \in has THEN sender ELSE "",
        !.payload = IF "payload" \in has THEN payload ELSE NoPayload]

AllFields == { required_fields[i] : i \in 1..Len(required_fields) }

ShapeRequests ==
    { RequestDict(h, i, t, s, p) :
        h \in SUBSET AllFields, i \in {NoneId} \cup Ids,
        t \in {"request", "response"}, s \in {CLIENT_AGENT, "other-agent"},
        p \in RequestPayloads }

FoodRequests ==
    { RequestDict(AllFields, i, "request", CLIENT_AGENT,
                  PayloadDict({"service", "food_item"}, SERVICE_NAME, f)) :
        i \in Ids, f \in FoodItems }

\* decoded bodies that are not JSON objects: null, [], "", 0, false
NonDicts ==
    { [EmptyDict EXCEPT !.kind = k] :
        k \in {"NoneType", "list", "str", "int", "bool"} }

\* is_json: request.is_json; parses: request.get_json() does not raise
NotJson == [is_json |-> FALSE, parses |-> FALSE, body |-> Unbound]
BadJson == [is_json |-> TRUE, parses |-> FALSE, body |-> Unbound]
Decoded(v) == [is_json |-> TRUE, parses |-> TRUE, body |-> v]

Inbound ==
    { NotJson, BadJson }
    \cup { Decoded(v) : v \in NonDicts \cup ShapeRequests \cup FoodRequests }

(***************************************************************************)
(* The service endpoint, chicken_food_safety(), one step per statement     *)
(***************************************************************************)
NoHttp == [propagated |-> FALSE, status |-> 0, body |-> Unbound]
Http(status, body) == [propagated |-> FALSE, status |-> status, body |-> body]
\* an exception that leaves the view: Flask answers with its own error page
Unhandled ==
    [propagated |-> TRUE, status |-> 500,
     body |-> [EmptyDict EXCEPT !.kind = "html"]]
\* {"error": "Content-Type must be application/json"}
ContentTypeError == [EmptyDict EXCEPT !.has = {"error"}]

ServiceIdle ==
    /\ spc = "idle"
    /\ inbound = NotJson
    /\ request_msg = Unbound
    /\ is_valid = FALSE
    /\ error_msg = NoReason
    /\ result = NoneResult
    /\ handlerCalls = 0
    /\ validated = FALSE
    /\ faultAt = 0
    /\ http = NoHttp

\* a request arrives at POST /a2a/chicken-food-safety
Receive ==
    /\ spc = "idle"
    /\ spc' = "l117"
    /\ \E raw \in Inbound : inbound' = raw
    /\ UNCHANGED << request_msg, is_valid, error_msg, result, handlerCalls,
                    validated, faultAt, http >>

Raise(line) ==
    /\ spc' = "except"
    /\ faultAt' = line

\* lines 117-118
CheckIsJson ==
    /\ spc = "l117"
    /\ IF ~inbound.is_json
       THEN /\ http' = Http(400, ContentTypeError)
            /\ spc' = "returned"
       ELSE /\ spc' = "l120"
            /\ UNCHANGED http
    /\ UNCHANGED << inbound, request_msg, is_valid, error_msg, result,
                    handlerCalls, validated, faultAt >>

\* line 120: get_json() raises BadRequest on a body that does not parse
GetJson ==
    /\ spc = "l120"
    /\ IF ~inbound.parses
       THEN /\ Raise(120)
            /\ UNCHANGED request_msg
       ELSE /\ request_msg' = inbound.body
            /\ spc' = "l121"
            /\ UNCHANGED faultAt
    /\ UNCHANGED << inbound, is_valid, error_msg, result, handlerCalls,
                    validated, http >>

\* line 121: request_msg.get('id') inside the log call
LogReceipt ==
    /\ spc = "l121"
    /\ IF GetRaises(request_msg)
       THEN Raise(121)
       ELSE spc' = "l124" /\ UNCHANGED faultAt
    /\ UNCHANGED << inbound, request_msg, is_valid, error_msg, result,
                    handlerCalls, validated, http >>

\* line 124
Validate ==
    /\ spc = "l124"
    /\ LET v == validate_a2a_request(request_msg)
       IN  IF v.raised
           THEN /\ Raise(124)
                /\ UNCHANGED << is_valid, error_msg, validated >>
           ELSE /\ is_valid' = v.is_valid
                /\ error_msg' = v.error_msg
                /\ validated' = TRUE
                /\ spc' = "l125"
                /\ UNCHANGED faultAt
    /\ UNCHANGED << inbound, request_msg, result, handlerCalls, http >>

\* faulty variant: the rejection is returned without its status code
RejectInvalid_default_status ==
    /\ spc = "l125"
    /\ ~is_valid
    /\ \E new_id \in Ids :
         LET r == create_a2a_response(request_msg, FALSE, NoneResult,
                     ErrorDict("INVALID_REQUEST", error_msg), new_id)
         IN  IF r.raised
             THEN Raise(127) /\ UNCHANGED http
             ELSE /\ http' = Http(200, r.value)
                  /\ spc' = "returned"
                  /\ UNCHANGED faultAt
    /\ UNCHANGED << inbound, request_msg, is_valid, error_msg, result,
                    handlerCalls, validated >>

\* lines 125-132
RejectInvalid ==
    /\ spc = "l125"
    /\ ~is_valid
    /\ \E new_id \in Ids :
         LET r == create_a2a_response(request_msg, FALSE, NoneResult,
                     ErrorDict("INVALID_REQUEST", error_msg), new_id)
         IN  IF r.raised
             THEN Raise(127) /\ UNCHANGED http
             ELSE /\ http' = Http(400, r.value)
                  /\ spc' = "returned"
                  /\ UNCHANGED faultAt
    /\ UNCHANGED << inbound, request_msg, is_valid, error_msg, result,
                    handlerCalls, validated >>

\* lines 135-138
InvokeHandler ==
    /\ spc = "l125"
    /\ is_valid
    /\ LET r == check_food_safety(request_msg.payload.food_item)
       IN  /\ handlerCalls' = handlerCalls + 1
           /\ IF r.raised
              THEN Raise(138) /\ UNCHANGED result
              ELSE /\ result' = r.value
                   /\ spc' = "l141"
                   /\ UNCHANGED faultAt
    /\ UNCHANGED << inbound, request_msg, is_valid, error_msg, validated,
                    http >>

\* lines 141-145
BuildSuccess ==
    /\ spc = "l141"
    /\ \E new_id \in Ids :
         LET r == create_a2a_response(request_msg, TRUE, result, NoneError,
                                      new_id)
         IN  IF r.raised
             THEN Raise(141) /\ UNCHANGED http
             ELSE /\ http' = Http(200, r.value)
                  /\ spc' = "returned"
                  /\ UNCHANGED faultAt
    /\ UNCHANGED << inbound, request_msg, is_valid, error_msg, result,
                    handlerCalls, validated >>

\* faulty variant: the internal error is returned without its status code
ExceptClause_default_status ==
    /\ spc = "except"
    /\ \E new_id \in Ids :
         LET r == create_a2a_response(
                     IF request_msg.kind = "unbound" THEN EmptyDict
                                                     ELSE request_msg,
                     FALSE, NoneResult,
                     ErrorDict("INTERNAL_ERROR", "Internal server error"),
                     new_id)
         IN  http' = IF r.raised THEN Unhandled ELSE Http(200, r.value)
    /\ spc' = "returned"
    /\ UNCHANGED << inbound, request_msg, is_valid, error_msg, result,
                    handlerCalls, validated, faultAt >>

\* lines 147-154: an exception raised here leaves the view
ExceptClause ==
    /\ spc = "except"
    /\ \E new_id \in Ids :
         LET r == create_a2a_response(
                     IF request_msg.kind = "unbound" THEN EmptyDict
                                                     ELSE request_msg,
                     FALSE, NoneResult,
                     ErrorDict("INTERNAL_ERROR", "Internal server error"),
                     new_id)
         IN  http' = IF r.raised THEN Unhandled ELSE Http(500, r.value)
    /\ spc' = "returned"
    /\ UNCHANGED << inbound, request_msg, is_valid, error_msg, result,
                    handlerCalls, validated, faultAt >>

\* the response is sent and the call's locals are gone
Complete ==
    /\ spc = "returned"
    /\ spc' = "idle"
    /\ inbound' = NotJson
    /\ request_msg' = Unbound
    /\ is_valid' = FALSE
    /\ error_msg' = NoReason
    /\ result' = NoneResult
    /\ handlerCalls' = 0
    /\ validated' = FALSE
    /\ faultAt' = 0
    /\ http' = NoHttp

(***************************************************************************)
(* client.py                                                               *)
(***************************************************************************)
\* faulty variant: the payload names the capability under another key
create_a2a_request_no_service(food_item, new_id) ==
    [EmptyDict EXCEPT
        !.has = AllFields \cup {"recipient"},
        !.id = new_id,
        !.type = "request",
        !.sender = CLIENT_AGENT,
        !.recipient = SERVICE_AGENT,
        !.payload = PayloadDict({"food_item"}, SERVICE_NAME, food_item)]

\* new_id stands for str(uuid.uuid4())
create_a2a_request(food_item, new_id) ==
    [EmptyDict EXCEPT
        !.has = AllFields \cup {"recipient"},
        !.id = new_id,
        !.type = "request",
        !.sender = CLIENT_AGENT,
        !.recipient = SERVICE_AGENT,
        !.payload = PayloadDict({"service", "food_item"}, SERVICE_NAME,
                                food_item)]

response_required_fields == << "version", "id", "timestamp", "type", "payload" >>
ResponseFields ==
    { response_required_fields[i] : i \in 1..Len(response_required_fields) }

Checked(raised, ok) == [raised |-> raised, ok |-> ok]

\* lines 103-112 and 118-122: everything but the correlation check
ResponseShape(response_msg) ==
    IF InRaises(response_msg) THEN Checked(TRUE, FALSE)
    ELSE IF ~(ResponseFields \subseteq response_msg.has)
    THEN Checked(FALSE, FALSE)
    ELSE IF SubscriptRaises(response_msg) THEN Checked(TRUE, FALSE)
    ELSE IF response_msg.type # "response" THEN Checked(FALSE, FALSE)
    ELSE IF InRaises(response_msg.payload) THEN Checked(TRUE, FALSE)
    ELSE IF ~In("success", response_msg.payload) THEN Checked(FALSE, FALSE)
    ELSE Checked(FALSE, TRUE)

\* response_msg.get("correlation_id"), None when the key is absent
CorrelationOf(response_msg) ==
    IF In("correlation_id", response_msg) THEN response_msg.correlation_id
                                          ELSE NoneId

\* faulty variant: the correlation check left out
validate_a2a_response_uncorrelated(response_msg, request_id) ==
    ResponseShape(response_msg)

\* the type check (line 110) precedes the correlation check (line 114),
\* which precedes the payload check (line 118)
validate_a2a_response(response_msg, request_id) ==
    LET shape == ResponseShape(response_msg)
        upToType ==
            /\ ~InRaises(response_msg)
            /\ ResponseFields \subseteq response_msg.has
            /\ ~SubscriptRaises(response_msg)
            /\ response_msg.type = "response"
    IN  IF upToType /\ CorrelationOf(response_msg) # request_id
        THEN Checked(FALSE, FALSE)
        ELSE shape

\* bool(payload["success"]) for the JSON values modelled
\* faulty variant: tests that the key is there, not its value
TruthySuccess_key_present(tok) == tok # ""

\* bool(payload["success"]) for the JSON values modelled
TruthySuccess(tok) == tok \in {"True", "yes"}

NoErr == [kind |-> "None", status |-> 0, message |-> ""]
Err(kind, status, message) ==
    [kind |-> kind, status |-> status, message |-> message]
NoOutcome == [returned |-> FALSE, result |-> NoneResult, error |-> NoErr]
\* return None, error
Failure(e) == [returned |-> TRUE, result |-> NoneResult, error |-> e]
\* return result, None
Success(r) == [returned |-> TRUE, result |-> r, error |-> NoErr]

(***************************************************************************)
(* What requests.post can produce                                          *)
(***************************************************************************)
KaleResult == Classify(Kale, StrFood(Kale))
ResponseResults ==
    { KaleResult, NoneResult,
      [KaleResult EXCEPT !.has = {"food_item", "is_safe", "message"}] }
ResponseErrors ==
    { ErrorDict("INVALID_REQUEST", "Unknown service requested"), NoneError,
      [ErrorDict("INVALID_REQUEST", "") EXCEPT !.has = {"code"}] }

ResponsePayloadDict(has, success, res, error) ==
    [NoPayload EXCEPT !.kind = "dict", !.has = has,
        !.service = SERVICE_NAME,
        !.success = IF "success" \in has THEN success ELSE "",
        !.result = IF "result" \in has THEN res ELSE NoneResult,
        !.error = IF "error" \in has THEN error ELSE NoneError]

ResponsePayloads ==
    { ResponsePayloadDict(h, sc, r, e) :
        h \in SUBSET {"success", "result", "error"},
        sc \in {"True", "False", "None", "yes"},
        r \in ResponseResults, e \in ResponseErrors }
    \cup { [NoPayload EXCEPT !.kind = k] : k \in {"NoneType", "int"} }
    \cup { [NoPayload EXCEPT !.kind = k, !.has = h] :
             k \in {"list", "str"}, h \in { {}, {"success"} } }

ResponseHas ==
    { ({"version", "id", "timestamp"} \ m) \cup o :
        m \in { {}, {"version"}, {"id"}, {"timestamp"} },
        o \in SUBSET {"type", "correlation_id", "payload"} }

ResponseBodies ==
    { [EmptyDict EXCEPT !.has = h,
          !.id = 1,
          !.type = IF "type" \in h THEN t ELSE "",
          !.correlation_id = IF "correlation_id" \in h THEN c ELSE NoneId,
          !.sender = SERVICE_AGENT,
          !.payload = IF "payload" \in h THEN p ELSE NoPayload] :
        h \in ResponseHas, t \in {"response", "request"},
        c \in {NoneId} \cup Ids, p \in ResponsePayloads }
    \cup NonDicts

\* neterr: requests.post raised a RequestException (connection, timeout);
\* decodes: response.json() does not raise
NetworkError ==
    [neterr |-> TRUE, status |-> 0, decodes |-> FALSE, body |-> Unbound]
HttpReply(status, decodes, body) ==
    [neterr |-> FALSE, status |-> status, decodes |-> decodes, body |-> body]
NoReply == HttpReply(0, FALSE, Unbound)

Replies ==
    { NetworkError }
    \cup { HttpReply(st, FALSE, Unbound) : st \in {200, 400, 500} }
    \cup { HttpReply(200, TRUE, b) : b \in ResponseBodies }
    \cup { HttpReply(st, TRUE, b) :
             st \in {400, 500},
             b \in { x \in ResponseBodies :
                       /\ x.kind = "dict"
                       /\ x.has = {"version", "id", "timestamp", "type",
                                   "correlation_id", "payload"}
                       /\ x.type = "response"
                       /\ x.payload.kind = "dict"
                       /\ x.payload.has = {"success", "error"}
                       /\ x.payload.success = "False"
                       /\ x.payload.error.has = {"code", "message"} } }

ClientFoods == { StrFood(Kale), StrFood(<< >>) }

(***************************************************************************)
(* ChickenFoodSafetyClient.check_food_safety, one step per statement       *)
(***************************************************************************)
ClientIdle ==
    /\ cpc = "idle"
    /\ cfood = NoFood
    /\ creq = Unbound
    /\ sends = 0
    /\ reply = NoReply
    /\ outcome = NoOutcome

\* client.check_food_safety(food_item) is called
Call ==
    /\ cpc = "idle"
    /\ cpc' = "l53"
    /\ \E food_item \in ClientFoods : cfood' = food_item
    /\ UNCHANGED << creq, sends, reply, outcome >>

\* line 53
CreateRequest ==
    /\ cpc = "l53"
    /\ \E new_id \in Ids : creq' = create_a2a_request(cfood, new_id)
    /\ cpc' = "l58"
    /\ UNCHANGED << cfood, sends, reply, outcome >>

Return(o) ==
    /\ outcome' = o
    /\ cpc' = "returned"

\* faulty variant: a failed transmission is tried once more
Post_retry ==
    /\ cpc = "l58"
    /\ sends' = sends + 1
    /\ \E r \in Replies :
         /\ reply' = r
         /\ IF r.neterr /\ sends = 0
            THEN cpc' = "l58" /\ UNCHANGED outcome
            ELSE IF r.neterr
            THEN Return(Failure(Err("Network error", 0, "")))
            ELSE cpc' = "l69" /\ UNCHANGED outcome
    /\ UNCHANGED << cfood, creq >>

\* lines 58-66, and lines 91-93 when the transport raises
Post ==
    /\ cpc = "l58"
    /\ sends' = sends + 1
    /\ \E r \in Replies :
         /\ reply' = r
         /\ IF r.neterr
            THEN Return(Failure(Err("Network error", 0, "")))
            ELSE cpc' = "l69" /\ UNCHANGED outcome
    /\ UNCHANGED << cfood, creq >>

\* faulty variant: the body is decoded before the status is looked at
CheckStatus_decode_first ==
    /\ cpc = "l69"
    /\ IF ~reply.decodes
       THEN Return(Failure(Err("Invalid JSON response", 0, "")))
       ELSE IF reply.status # 200
       THEN Return(Failure(Err("Server error", reply.status, "")))
       ELSE cpc' = "l74" /\ UNCHANGED outcome
    /\ UNCHANGED << cfood, creq, sends, reply >>

\* lines 69-71
CheckStatus ==
    /\ cpc = "l69"
    /\ IF reply.status # 200
       THEN Return(Failure(Err("Server error", reply.status, "")))
       ELSE cpc' = "l74" /\ UNCHANGED outcome
    /\ UNCHANGED << cfood, creq, sends, reply >>

\* line 74: the decode error of requests is a json.JSONDecodeError (lines
\* 94-96) and, from requests 2.27 on, a RequestException too (lines 91-93)
ParseJson ==
    /\ cpc = "l74"
    /\ IF ~reply.decodes
       THEN \E k \in {"Network error", "Invalid JSON response"} :
               Return(Failure(Err(k, 0, "")))
       ELSE cpc' = "l77" /\ UNCHANGED outcome
    /\ UNCHANGED << cfood, creq, sends, reply >>

\* lines 77-78, and lines 97-99 when the validator raises
ValidateResponse ==
    /\ cpc = "l77"
    /\ LET v == validate_a2a_response(reply.body, creq.id)
       IN  IF v.raised
           THEN Return(Failure(Err("Unexpected error", 0, "")))
           ELSE IF ~v.ok
           THEN Return(Failure(Err("Invalid A2A response format", 0, "")))
           ELSE cpc' = "l81" /\ UNCHANGED outcome
    /\ UNCHANGED << cfood, creq, sends, reply >>

\* lines 81-83
CheckSuccess ==
    /\ cpc = "l81"
    /\ LET payload == reply.body.payload
       IN  IF SubscriptRaises(payload)
           THEN Return(Failure(Err("Unexpected error", 0, "")))
           ELSE IF TruthySuccess(payload.success)
           THEN cpc' = "l86" /\ UNCHANGED outcome
           ELSE IF In("error", payload) /\ GetRaises(payload.error)
           THEN Return(Failure(Err("Unexpected error", 0, "")))
           ELSE Return(Failure(Err("Service error", 0,
                   IF In("error", payload) /\ In("message", payload.error)
                   THEN payload.error.message ELSE "Unknown error")))
    /\ UNCHANGED << cfood, creq, sends, reply >>

\* faulty variant: line 87, which reads result['status'], left out
ReturnResult_unlogged ==
    /\ cpc = "l86"
    /\ LET payload == reply.body.payload
       IN  IF ~In("result", payload)
           THEN Return(Failure(Err("Unexpected error", 0, "")))
           ELSE Return(Success(payload.result))
    /\ UNCHANGED << cfood, creq, sends, reply >>

\* lines 86-89: payload["result"] and result['status'] may raise
ReturnResult ==
    /\ cpc = "l86"
    /\ LET payload == reply.body.payload
       IN  IF \/ ~In("result", payload)
              \/ SubscriptRaises(payload.result)
              \/ ~In("status", payload.result)
           THEN Return(Failure(Err("Unexpected error", 0, "")))
           ELSE Return(Success(payload.result))
    /\ UNCHANGED << cfood, creq, sends, reply >>

\* the caller has the pair and the call's locals are gone
ClientComplete ==
    /\ cpc = "returned"
    /\ cpc' = "idle"
    /\ cfood' = NoFood
    /\ creq' = Unbound
    /\ sends' = 0
    /\ reply' = NoReply
    /\ outcome' = NoOutcome

(***************************************************************************)
(* The client talking to the service: requests.post carries the request    *)
(* to the endpoint and brings back what the endpoint returned              *)
(***************************************************************************)
\* food items a caller may pass to client.check_food_safety
ExchangeFoods ==
    { StrFood(w) : w \in SampleWords \cup { << >> } }
    \cup { OtherFood(k) :
             k \in {"int", "NoneType", "list", "dict", "bool", "tuple",
                    "bytes"} }

\* json.dumps inside requests.post: a tuple is written as an array, bytes
\* raise TypeError
Unserialisable(f) == f.kind = "bytes"
WireFood(f) == IF f.kind = "tuple" THEN OtherFood("list") ELSE f
ToWire(msg) == [msg EXCEPT !.payload.food_item = WireFood(@)]

\* what requests sees of the endpoint's answer: jsonify writes the envelope
\* (strings, booleans, null and objects of these), response.json() reads it
\* back; Flask's error page is HTML and does not decode
FromWire(h) ==
    IF h.body.kind = "html"
    THEN HttpReply(h.status, FALSE, Unbound)
    ELSE HttpReply(h.status, TRUE, h.body)

\* client.check_food_safety(food_item) is called with any food item
CallAny ==
    /\ cpc = "idle"
    /\ cpc' = "l53"
    /\ \E food_item \in ExchangeFoods : cfood' = food_item
    /\ UNCHANGED << creq, sends, reply, outcome >>

\* lines 58-66: requests.post serialises the request and sends it to the
\* endpoint (lines 97-99 when it cannot be serialised)
Transmit ==
    /\ cpc = "l58"
    /\ spc = "idle"
    /\ sends' = sends + 1
    /\ IF Unserialisable(creq.payload.food_item)
       THEN /\ Return(Failure(Err("Unexpected error", 0, "")))
            /\ UNCHANGED << spc, inbound >>
       ELSE /\ cpc' = "posting"
            /\ inbound' = Decoded(ToWire(creq))
            /\ spc' = "l117"
            /\ UNCHANGED outcome
    /\ UNCHANGED << cfood, creq, reply, request_msg, is_valid, error_msg,
                    result, handlerCalls, validated, faultAt, http >>

\* lines 58-66 and 91-93: the endpoint cannot be reached
TransportFails ==
    /\ cpc = "l58"
    /\ sends' = sends + 1
    /\ reply' = NetworkError
    /\ Return(Failure(Err("Network error", 0, "")))
    /\ UNCHANGED << cfood, creq >>

\* lines 58-66: requests.post returns the endpoint's answer
Deliver ==
    /\ cpc = "posting"
    /\ Complete
    /\ reply' = FromWire(http)
    /\ cpc' = "l69"
    /\ UNCHANGED << cfood, creq, sends, outcome >>

(***************************************************************************)
(* Direct calls of the pure functions on one food item                     *)
(***************************************************************************)
NotCalled == [raised |-> FALSE, value |-> NoneResult]
NoVerdict == Verdict(FALSE, FALSE, NoReason)
\* success=True, result=None, error=None: the defaults of line 37
DefaultArgs == [success |-> TRUE, result |-> NoneResult, error |-> NoneError]
NotBuilt == [raised |-> FALSE, value |-> Unbound]
\* values passed as result: None or a result dict
ResultArgs ==
    { NoneResult,
      ResultDict(StrFood(<< "k", "a", "l", "e" >>), "True", "safe",
                 "{} is safe for chickens to eat.") }
\* values passed as error: None, {} or an error dict
ErrorArgs ==
    { NoneError, [NoneError EXCEPT !.kind = "dict"],
      ErrorDict("INTERNAL_ERROR", "Internal server error") }

FunctionsIdle ==
    /\ fpc = "idle"
    /\ fa = NoFood
    /\ fout = NotCalled
    /\ freq = Unbound
    /\ fverdict = NoVerdict
    /\ fargs = DefaultArgs
    /\ fresp = NotBuilt

\* check_food_safety(fa)
ClassifyCall ==
    /\ fpc = "start"
    /\ fout' = check_food_safety(fa)
    /\ fpc' = "classified"
    /\ UNCHANGED << fa, freq, fverdict, fargs, fresp >>

\* create_a2a_request(fa)
BuildCall ==
    /\ fpc = "start"
    /\ \E new_id \in Ids : freq' = create_a2a_request(fa, new_id)
    /\ fpc' = "built"
    /\ UNCHANGED << fa, fout, fverdict, fargs, fresp >>

\* validate_a2a_request on the envelope just built
ValidateCall ==
    /\ fpc = "built"
    /\ fverdict' = validate_a2a_request(freq)
    /\ fpc' = "validated"
    /\ UNCHANGED << fa, fout, freq, fargs, fresp >>

\* create_a2a_response(freq, success, result, error) on the envelope just
\* built
RespondCall ==
    /\ fpc = "built"
    /\ \E success \in BOOLEAN, res \in ResultArgs, error \in ErrorArgs,
          new_id \in Ids :
          /\ fargs' = [success |-> success, result |-> res, error |-> error]
          /\ fresp' = create_a2a_response(freq, success, res, error, new_id)
    /\ fpc' = "responded"
    /\ UNCHANGED << fa, fout, freq, fverdict >>

(***************************************************************************)
(* Several chicken_food_safety() calls running at the same time: each has  *)
(* its own request and locals, all read the same module globals            *)
(***************************************************************************)
Workers == 1..NumWorkers

IdleLocal ==
    [pc |-> "idle", inbound |-> NotJson, request_msg |-> Unbound,
     is_valid |-> FALSE, error_msg |-> NoReason, result |-> NoneResult,
     faultAt |-> 0, http |-> NoHttp]

WorkersIdle ==
    /\ workers = [w \in Workers |-> IdleLocal]
    /\ safe_foods = SAFE_FOODS
    /\ unsafe_foods = UNSAFE_FOODS

FoodRequest(id, food_item) ==
    RequestDict(AllFields, id, "request", CLIENT_AGENT,
                PayloadDict({"service", "food_item"}, SERVICE_NAME, food_item))

\* requests that take each path through the endpoint
ConcurrentInbound ==
    { NotJson,
      Decoded([EmptyDict EXCEPT !.kind = "NoneType"]),
      Decoded(RequestDict(AllFields \ {"payload"}, 1, "request",
                          CLIENT_AGENT, NoPayload)),
      Decoded(FoodRequest(1, StrFood(Kale))),
      Decoded(FoodRequest(2, StrFood(Durian))),
      Decoded(FoodRequest(1, OtherFood("NoneType"))) }

RaiseIn(l, line) == [l EXCEPT !.pc = "except", !.faultAt = line]
ReturnIn(l, h) == [l EXCEPT !.pc = "returned", !.http = h]

\* lines 117-154: the locals after the next statement of a call whose
\* locals are l; safe and unsafe are the globals as that statement reads
\* them, new_id stands for str(uuid.uuid4())
Advance(l, safe, unsafe, new_id) ==
    CASE l.pc = "l117" ->
           IF ~l.inbound.is_json
           THEN ReturnIn(l, Http(400, ContentTypeError))
           ELSE [l EXCEPT !.pc = "l120"]
      [] l.pc = "l120" ->
           IF ~l.inbound.parses
           THEN RaiseIn(l, 120)
           ELSE [l EXCEPT !.request_msg = l.inbound.body, !.pc = "l121"]
      [] l.pc = "l121" ->
           IF GetRaises(l.request_msg)
           THEN RaiseIn(l, 121)
           ELSE [l EXCEPT !.pc = "l124"]
      [] l.pc = "l124" ->
           LET v == validate_a2a_request(l.request_msg)
           IN  IF v.raised
               THEN RaiseIn(l, 124)
               ELSE [l EXCEPT !.is_valid = v.is_valid,
                              !.error_msg = v.error_msg, !.pc = "l125"]
      [] l.pc = "l125" /\ ~l.is_valid ->
           LET r == create_a2a_response(l.request_msg, FALSE, NoneResult,
                       ErrorDict("INVALID_REQUEST", l.error_msg), new_id)
           IN  IF r.raised THEN RaiseIn(l, 127)
                           ELSE ReturnIn(l, Http(400, r.value))
      [] l.pc = "l125" /\ l.is_valid ->
           LET r == check_food_safety_in(safe, unsafe,
                                         l.request_msg.payload.food_item)
           IN  IF r.raised
               THEN RaiseIn(l, 138)
               ELSE [l EXCEPT !.result = r.value, !.pc = "l141"]
      [] l.pc = "l141" ->
           LET r == create_a2a_response(l.request_msg, TRUE, l.result,
                                        NoneError, new_id)
           IN  IF r.raised THEN RaiseIn(l, 141)
                           ELSE ReturnIn(l, Http(200, r.value))
      [] l.pc = "except" ->
           LET r == create_a2a_response(
                       IF l.request_msg.kind = "unbound" THEN EmptyDict
                                                         ELSE l.request_msg,
                       FALSE, NoneResult,
                       ErrorDict("INTERNAL_ERROR", "Internal server error"),
                       new_id)
           IN  ReturnIn(l, IF r.raised THEN Unhandled
                                       ELSE Http(500, r.value))

\* the statements that call uuid.uuid4() through create_a2a_response
BuildsResponse(l) ==
    \/ l.pc = "l125" /\ ~l.is_valid
    \/ l.pc \in {"l141", "except"}

\* a request arrives and a thread starts chicken_food_safety() for it
Accept(w) ==
    /\ workers[w].pc = "idle"
    /\ \E raw \in ConcurrentInbound :
         workers' = [workers EXCEPT ![w] =
                        [IdleLocal EXCEPT !.pc = "l117", !.inbound = raw]]
    /\ UNCHANGED << safe_foods, unsafe_foods >>

\* faulty variant: a food found in neither set is added to SAFE_FOODS
Step_learns(w) ==
    /\ workers[w].pc \notin {"idle", "returned"}
    /\ \E new_id \in (IF BuildsResponse(workers[w]) THEN Ids ELSE {1}) :
         workers' = [workers EXCEPT ![w] =
                        Advance(workers[w], safe_foods, unsafe_foods, new_id)]
    /\ safe_foods' =
         IF workers[w].pc = "l125" /\ workers'[w].pc = "l141"
            /\ workers'[w].result.status = "unknown"
         THEN safe_foods \cup
                { Strip(Lower(workers[w].request_msg.payload.food_item.s)) }
         ELSE safe_foods
    /\ UNCHANGED unsafe_foods

\* thread w runs its next statement; no statement assigns to a global
Step(w) ==
    /\ workers[w].pc \notin {"idle", "returned"}
    /\ \E new_id \in (IF BuildsResponse(workers[w]) THEN Ids ELSE {1}) :
         workers' = [workers EXCEPT ![w] =
                        Advance(workers[w], safe_foods, unsafe_foods, new_id)]
    /\ UNCHANGED << safe_foods, unsafe_foods >>

\* the response is sent and the thread's locals are gone
Finish(w) ==
    /\ workers[w].pc = "returned"
    /\ workers' = [workers EXCEPT ![w] = IdleLocal]
    /\ UNCHANGED << safe_foods, unsafe_foods >>

(***************************************************************************)
(* Specifications                                                          *)
(***************************************************************************)
Init == ServiceIdle /\ ClientIdle /\ FunctionsIdle /\ WorkersIdle

\* the service endpoint, fed by an arbitrary peer
Next ==
    \/ Receive /\ UNCHANGED << cvars, fvars, wvars >>
    \/ CheckIsJson /\ UNCHANGED << cvars, fvars, wvars >>
    \/ GetJson /\ UNCHANGED << cvars, fvars, wvars >>
    \/ LogReceipt /\ UNCHANGED << cvars, fvars, wvars >>
    \/ Validate /\ UNCHANGED << cvars, fvars, wvars >>
    \/ RejectInvalid /\ UNCHANGED << cvars, fvars, wvars >>
    \/ InvokeHandler /\ UNCHANGED << cvars, fvars, wvars >>
    \/ BuildSuccess /\ UNCHANGED << cvars, fvars, wvars >>
    \/ ExceptClause /\ UNCHANGED << cvars, fvars, wvars >>
    \/ Complete /\ UNCHANGED << cvars, fvars, wvars >>

Spec == Init /\ [][Next]_vars

\* the requester, answered by an arbitrary peer
NextClient ==
    \/ Call /\ UNCHANGED << svars, fvars, wvars >>
    \/ CreateRequest /\ UNCHANGED << svars, fvars, wvars >>
    \/ Post /\ UNCHANGED << svars, fvars, wvars >>
    \/ CheckStatus /\ UNCHANGED << svars, fvars, wvars >>
    \/ ParseJson /\ UNCHANGED << svars, fvars, wvars >>
    \/ ValidateResponse /\ UNCHANGED << svars, fvars, wvars >>
    \/ CheckSuccess /\ UNCHANGED << svars, fvars, wvars >>
    \/ ReturnResult /\ UNCHANGED << svars, fvars, wvars >>
    \/ ClientComplete /\ UNCHANGED << svars, fvars, wvars >>

SpecClient == Init /\ [][NextClient]_vars

\* the requester and the service together; the service also answers other
\* peers between the requester's calls.  Steps of the two sides touch
\* disjoint variables, so one side runs at a time.
NextExchange ==
    \/ cpc = "idle" /\ Receive /\ UNCHANGED << cvars, fvars, wvars >>
    \/ CheckIsJson /\ UNCHANGED << cvars, fvars, wvars >>
    \/ GetJson /\ UNCHANGED << cvars, fvars, wvars >>
    \/ LogReceipt /\ UNCHANGED << cvars, fvars, wvars >>
    \/ Validate /\ UNCHANGED << cvars, fvars, wvars >>
    \/ RejectInvalid /\ UNCHANGED << cvars, fvars, wvars >>
    \/ InvokeHandler /\ UNCHANGED << cvars, fvars, wvars >>
    \/ BuildSuccess /\ UNCHANGED << cvars, fvars, wvars >>
    \/ ExceptClause /\ UNCHANGED << cvars, fvars, wvars >>
    \/ cpc = "idle" /\ Complete /\ UNCHANGED << cvars, fvars, wvars >>
    \/ spc = "idle" /\ CallAny /\ UNCHANGED << svars, fvars, wvars >>
    \/ CreateRequest /\ UNCHANGED << svars, fvars, wvars >>
    \/ Transmit /\ UNCHANGED << fvars, wvars >>
    \/ TransportFails /\ UNCHANGED << svars, fvars, wvars >>
    \/ Deliver /\ UNCHANGED << fvars, wvars >>
    \/ CheckStatus /\ UNCHANGED << svars, fvars, wvars >>
    \/ ParseJson /\ UNCHANGED << svars, fvars, wvars >>
    \/ ValidateResponse /\ UNCHANGED << svars, fvars, wvars >>
    \/ CheckSuccess /\ UNCHANGED << svars, fvars, wvars >>
    \/ ReturnResult /\ UNCHANGED << svars, fvars, wvars >>
    \/ ClientComplete /\ UNCHANGED << svars, fvars, wvars >>

SpecExchange == Init /\ [][NextExchange]_vars

\* the service handling several requests at once
NextConcurrent ==
    \/ \E w \in Workers : Accept(w) /\ UNCHANGED << svars, cvars, fvars >>
    \/ \E w \in Workers : Step(w) /\ UNCHANGED << svars, cvars, fvars >>
    \/ \E w \in Workers : Finish(w) /\ UNCHANGED << svars, cvars, fvars >>

SpecConcurrent == Init /\ [][NextConcurrent]_vars

\* the pure functions, applied to each food item
InitFunctions ==
    /\ ServiceIdle
    /\ ClientIdle
    /\ fpc = "start"
    /\ fa \in FoodItems
    /\ fout = NotCalled
    /\ freq = Unbound
    /\ fverdict = NoVerdict
    /\ fargs = DefaultArgs
    /\ fresp = NotBuilt
    /\ WorkersIdle

NextFunctions ==
    \/ ClassifyCall /\ UNCHANGED << svars, cvars, wvars >>
    \/ BuildCall /\ UNCHANGED << svars, cvars, wvars >>
    \/ ValidateCall /\ UNCHANGED << svars, cvars, wvars >>
    \/ RespondCall /\ UNCHANGED << svars, cvars, wvars >>

SpecFunctions == InitFunctions /\ [][NextFunctions]_vars

(***************************************************************************)
(* Properties of the service endpoint (specification Spec)                 *)
(***************************************************************************)
Returned == spc = "returned"
\* the endpoint returned a response envelope (not the bare content-type
\* error, not Flask's own error page)
IsEnvelope(h) ==
    /\ ~h.propagated
    /\ h.body.kind = "dict"
    /\ "payload" \in h.body.has
IsDictBody == inbound.is_json /\ inbound.parses /\ inbound.body.kind = "dict"
\* the id of the request being answered; None when it carries none
RequestId ==
    IF IsDictBody /\ "id" \in inbound.body.has THEN inbound.body.id ELSE NoneId
HasError(h, code) ==
    /\ IsEnvelope(h)
    /\ h.body.payload.success = "False"
    /\ "error" \in h.body.payload.has
    /\ "result" \notin h.body.payload.has
    /\ h.body.payload.error.code = code

\* C1: every response envelope the endpoint returns (invalid request,
\* success, internal error) has correlation_id equal to the id of the
\* request it answers, and carries exactly one of result / error: result
\* iff success is true, error iff success is false.
C1_CorrelatedAndExclusive ==
    (Returned /\ IsEnvelope(http)) =>
        LET p == http.body.payload
        IN  /\ http.body.type = "response"
            /\ http.body.correlation_id = RequestId
            /\ ("result" \in p.has) # ("error" \in p.has)
            /\ ("result" \in p.has) <=> (p.success = "True")
            /\ ("error" \in p.has) <=> (p.success = "False")

\* an internal-error envelope that answers a request carrying an id
C1_Witness ==
    /\ Returned
    /\ HasError(http, "INTERNAL_ERROR")
    /\ RequestId \in Ids
    /\ http.body.correlation_id = RequestId

\* the decoded request lacks a required top-level field or names a service
\* other than the supported one
FailsValidation ==
    /\ IsDictBody
    /\ \/ ~(AllFields \subseteq inbound.body.has)
       \/ /\ inbound.body.payload.kind = "dict"
          /\ "service" \in inbound.body.payload.has
          /\ inbound.body.payload.service # SERVICE_NAME

\* C3: a decoded request that fails request validation is answered with
\* status 400 by an envelope with success=false, error.code INVALID_REQUEST
\* and the validator's reason as error.message; it is never answered with
\* success=true and check_food_safety is never called for it.
C3_InvalidRejected ==
    (spc # "idle" /\ (FailsValidation \/ (validated /\ ~is_valid))) =>
        /\ handlerCalls = 0
        /\ faultAt = 0
        /\ spc \in {"l117", "l120", "l121", "l124", "l125", "returned"}
        /\ spc \in {"l125", "returned"} => (validated /\ ~is_valid)
        /\ Returned =>
              /\ http.status = 400
              /\ HasError(http, "INVALID_REQUEST")
              /\ error_msg # NoReason
              /\ http.body.payload.error.message = error_msg

\* a request naming an unsupported service has been answered
C3_Witness ==
    /\ Returned
    /\ FailsValidation
    /\ AllFields \subseteq inbound.body.has
    /\ inbound.body.type = "request"
    /\ http.status = 400
    /\ http.body.payload.error.message = "Unknown service requested"

HasFoodItem(f) ==
    /\ IsDictBody
    /\ "payload" \in inbound.body.has
    /\ inbound.body.payload.kind = "dict"
    /\ "food_item" \in inbound.body.payload.has
    /\ inbound.body.payload.food_item = f

\* C4: a request whose payload.food_item is the empty string fails request
\* validation and is answered with INVALID_REQUEST, not a classification.
C4_EmptyFoodItemRejected ==
    (Returned /\ HasFoodItem(StrFood(<< >>))) =>
        /\ ~(validated /\ is_valid)
        /\ handlerCalls = 0
        /\ HasError(http, "INVALID_REQUEST")

\* a request that conforms to the envelope schema (food_item any str)
WellFormed ==
    /\ IsDictBody
    /\ AllFields \subseteq inbound.body.has
    /\ inbound.body.type = "request"
    /\ inbound.body.payload.kind = "dict"
    /\ {"service", "food_item"} \subseteq inbound.body.payload.has
    /\ inbound.body.payload.service = SERVICE_NAME
    /\ inbound.body.payload.food_item.kind = "str"

\* C5: every inbound message ends in one of three outcomes and the status
\* class matches it: a malformed or invalid request (wrong-shaped payload
\* fields included) gets a 400-class status, a handled request gets 200
\* with success=true, and a 500-class status is produced only when the
\* capability handler itself faults.
C5_StatusMatchesOutcome ==
    Returned =>
        /\ ~WellFormed => http.status \in 400..499
        /\ WellFormed =>
              /\ http.status = 200
              /\ IsEnvelope(http)
              /\ http.body.payload.success = "True"
        /\ http.status \in 500..599 => (handlerCalls = 1 /\ faultAt = 138)

\* C6: an inbound message whose transport payload cannot be decoded (wrong
\* content type, or a JSON body that does not parse) is rejected as the
\* client's error with a minimal error that is correlated to no request
\* id, and not as an internal error.
C6_UndecodableIsClientError ==
    (Returned /\ (~inbound.is_json \/ ~inbound.parses)) =>
        /\ ~http.propagated
        /\ http.status \in 400..499
        /\ http.body.correlation_id = NoneId
        /\ ~HasError(http, "INTERNAL_ERROR")

\* C7: no fault leaves the endpoint: every inbound payload gets a response
\* built by the endpoint, and any fault is answered by an envelope with
\* success=false, error.code INTERNAL_ERROR and the fixed generic message.
C7_NoFaultPropagates ==
    Returned =>
        /\ ~http.propagated
        /\ faultAt # 0 =>
              /\ HasError(http, "INTERNAL_ERROR")
              /\ http.body.payload.error.message = "Internal server error"

\* the three classifications, by membership of the lower-cased, trimmed
\* food item
Expected(s) ==
    LET n == Lower(Strip(s))
    IN  IF n \in SAFE_FOODS THEN << "True", "safe" >>
        ELSE IF n \in UNSAFE_FOODS THEN << "False", "unsafe" >>
        ELSE << "None", "unknown" >>

\* C9: every valid request envelope is answered with success=true and a
\* result classified by membership of the food item: known-safe gives
\* is_safe=true / "safe", known-unsafe gives is_safe=false / "unsafe",
\* neither gives is_safe=null / "unknown"; the two sets are disjoint and
\* "unknown" is a success, never an error.
C9_ClassifiedByMembership ==
    /\ SAFE_FOODS \cap UNSAFE_FOODS = {}
    /\ (Returned /\ WellFormed) =>
          LET f == inbound.body.payload.food_item
              p == http.body.payload
          IN  /\ http.status = 200
              /\ IsEnvelope(http)
              /\ p.success = "True"
              /\ "result" \in p.has
              /\ "error" \notin p.has
              /\ p.result.food_item = f
              /\ << p.result.is_safe, p.result.status >> = Expected(f.s)
              /\ f.s \in SAFE_FOODS => p.result.status = "safe"
              /\ f.s \in UNSAFE_FOODS => p.result.status = "unsafe"

\* a food item in neither set has been answered "unknown" with success
C9_Witness ==
    /\ Returned
    /\ WellFormed
    /\ inbound.body.payload.food_item = StrFood(Durian)
    /\ http.status = 200
    /\ http.body.payload.result.status = "unknown"

(***************************************************************************)
(* Properties of the requester (specification SpecClient)                  *)
(***************************************************************************)
\* the reply has status 200, decodes to an object with the required fields
\* and type "response", but is correlated to another id than the one sent
Miscorrelated ==
    /\ ~reply.neterr
    /\ reply.status = 200
    /\ reply.decodes
    /\ reply.body.kind = "dict"
    /\ {"version", "id", "timestamp", "type", "payload"}
          \subseteq reply.body.has
    /\ reply.body.type = "response"
    /\ creq.kind = "dict"
    /\ (IF "correlation_id" \in reply.body.has
        THEN reply.body.correlation_id ELSE NoneId) # creq.id

\* C2: a reply with status 200, all required fields and type "response"
\* whose correlation_id differs from the id of the request sent makes
\* check_food_safety return (None, error), never the reply's
\* payload.result, even when payload.success is true.
C2_MiscorrelatedRejected ==
    Miscorrelated =>
        /\ cpc \in {"l69", "l74", "l77", "returned"}
        /\ cpc = "returned" =>
              /\ outcome.returned
              /\ outcome.result = NoneResult
              /\ outcome.error.kind = "Invalid A2A response format"

\* a miscorrelated reply that reports success with a result was rejected
C2_Witness ==
    /\ cpc = "returned"
    /\ Miscorrelated
    /\ reply.body.correlation_id \in Ids
    /\ reply.body.payload.kind = "dict"
    /\ reply.body.payload.has = {"success", "result"}
    /\ reply.body.payload.success = "True"
    /\ reply.body.payload.result = KaleResult
    /\ outcome.result = NoneResult

(***************************************************************************)
(* Properties of the pure functions (specification SpecFunctions)          *)
(***************************************************************************)
\* C8: for every food item, the envelope create_a2a_request builds is
\* judged valid by the service's validate_a2a_request: (True, None).
C8_BuiltRequestIsValid ==
    fpc = "validated" =>
        /\ freq.payload.food_item = fa
        /\ ~fverdict.raised
        /\ fverdict.is_valid
        /\ fverdict.error_msg = NoReason

\* the envelope built for a padded, mixed-case food name was validated
C8_Witness ==
    /\ fpc = "validated"
    /\ fa.kind = "str"
    /\ fa.s # Lower(Strip(fa.s))
    /\ fverdict.is_valid

\* each model string after trimming, then lower-casing
TrimmedLower == [g \in FoodStrings |-> Lower(Strip(g))]
\* what check_food_safety returns for each model string
Classified == [g \in FoodStrings |-> check_food_safety(StrFood(g))]

\* C10: two food-item strings that are equal after lower-casing and
\* trimming surrounding whitespace receive the same is_safe and status.
C10_CaseAndPaddingInvariant ==
    (fpc = "classified" /\ fa.kind = "str") =>
        /\ ~fout.raised
        /\ \A g \in FoodStrings :
              TrimmedLower[g] = TrimmedLower[fa.s] =>
                 /\ ~Classified[g].raised
                 /\ Classified[g].value.is_safe = fout.value.is_safe
                 /\ Classified[g].value.status = fout.value.status

\* a padded upper-case spelling of a known-unsafe food was classified
C10_Witness ==
    /\ fpc = "classified"
    /\ fa.kind = "str"
    /\ fa.s # Strip(fa.s)
    /\ Strip(fa.s) # Lower(Strip(fa.s))
    /\ Lower(Strip(fa.s)) = Chocolate
    /\ fout.value.status = "unsafe"

\* C11: check_food_safety never raises and always returns a pair
\* (result, error) with exactly one component non-null, whatever the
\* transport did: connection failure or timeout, non-200 status, body that
\* does not decode, reply that fails validation, success=false, and
\* success=true with a missing or malformed result.
C11_ExactlyOneOfPair ==
    /\ cpc \in {"idle", "l53", "l58", "l69", "l74", "l77", "l81", "l86",
                "returned"}
    /\ cpc # "returned" => outcome = NoOutcome
    /\ cpc = "returned" =>
          /\ outcome.returned
          /\ (outcome.result = NoneResult) # (outcome.error = NoErr)
          /\ outcome.result # NoneResult => outcome.result.kind = "dict"
          /\ reply.neterr => outcome.error.kind = "Network error"
          /\ (~reply.neterr /\ reply.status # 200) =>
                outcome.error.kind = "Server error"
          /\ (~reply.neterr /\ reply.status = 200 /\ ~reply.decodes) =>
                outcome.error.kind
                   \in {"Network error", "Invalid JSON response"}

\* a reply with success=true and a null result ended as an error
C11_Witness ==
    /\ cpc = "returned"
    /\ reply.status = 200
    /\ reply.decodes
    /\ reply.body.kind = "dict"
    /\ reply.body.payload.kind = "dict"
    /\ reply.body.payload.success = "True"
    /\ "result" \in reply.body.payload.has
    /\ reply.body.payload.result = NoneResult
    /\ outcome.error.kind = "Unexpected error"
    /\ outcome.result = NoneResult

\* C12: one call of check_food_safety transmits at most once and builds
\* one request envelope: after a network failure, timeout, error status or
\* invalid reply it returns the failure and neither sends again nor
\* replaces the request.
C12_SingleTransmission ==
    /\ [](/\ sends <= 1
          /\ cpc \in {"idle", "l53", "l58"} => sends = 0
          /\ cpc \in {"l69", "l74", "l77", "l81", "l86", "returned"}
                => sends = 1)
    /\ [][/\ (creq # Unbound /\ cpc' # "idle") => creq' = creq
          /\ (outcome.returned /\ cpc' # "idle") =>
                (sends' = sends /\ outcome' = outcome)]_vars

\* the transport failed and the call returned after its one transmission
C12_Witness ==
    /\ cpc = "returned"
    /\ reply.neterr
    /\ sends = 1
    /\ outcome.error.kind = "Network error"

\* C17: a non-null result returned by check_food_safety is the
\* payload.result of a reply that had status 200, the fields version, id,
\* timestamp, type and payload, type "response", correlation_id equal to
\* the id of the request built in this call and a truthy payload.success;
\* in every other case the result is null.
C17_ResultOnlyFromValidReply ==
    (cpc = "returned" /\ outcome.result # NoneResult) =>
        /\ ~reply.neterr
        /\ reply.status = 200
        /\ reply.decodes
        /\ reply.body.kind = "dict"
        /\ {"version", "id", "timestamp", "type", "payload"}
              \subseteq reply.body.has
        /\ reply.body.type = "response"
        /\ "correlation_id" \in reply.body.has
        /\ reply.body.correlation_id = creq.id
        /\ reply.body.payload.kind = "dict"
        /\ "success" \in reply.body.payload.has
        /\ reply.body.payload.success \in {"True", "yes"}
        /\ "result" \in reply.body.payload.has
        /\ outcome.result = reply.body.payload.result
        /\ outcome.error = NoErr

\* a correlated reply whose success is a non-empty string gave its result
C17_Witness ==
    /\ cpc = "returned"
    /\ outcome.result = KaleResult
    /\ reply.body.payload.success = "yes"
    /\ reply.body.correlation_id = creq.id

(***************************************************************************)
(* Properties of the request validator (specification Spec)                *)
(***************************************************************************)
\* the reason of the lowest-numbered violated rule, rules 1 to 5 as stated;
\* NoReason when none is violated
FirstViolatedRule(msg) ==
    LET missing == { i \in 1..6 :
                       << "version", "id", "timestamp", "type", "sender",
                          "payload" >>[i] \notin msg.has }
    IN  IF missing # {}
        THEN "Missing required field: "
             \o << "version", "id", "timestamp", "type", "sender",
                   "payload" >>[SetMin(missing)]
        ELSE IF msg.type # "request" THEN "Message type must be 'request'"
        ELSE IF ~(msg.payload.kind = "dict" /\ "service" \in msg.payload.has)
        THEN "Missing 'service' in payload"
        ELSE IF msg.payload.service # "chicken_food_safety_check"
        THEN "Unknown service requested"
        ELSE IF "food_item" \notin msg.payload.has
        THEN "Missing 'food_item' in payload"
        ELSE NoReason

\* line 124 has been executed for the decoded JSON object
ValidatorCalled ==
    /\ request_msg.kind = "dict"
    /\ spc = "l125" \/ faultAt = 124

\* C13: validate_a2a_request checks its rules in the order (1) required
\* fields version, id, timestamp, type, sender, payload, (2) type is
\* "request", (3) payload has "service", (4) payload.service is the
\* supported name, (5) payload has "food_item"; it returns the reason of
\* the lowest-numbered violated rule, and (True, None) iff none is violated.
C13_FirstViolatedRuleReported ==
    ValidatorCalled =>
        /\ validated
        /\ faultAt = 0
        /\ error_msg = FirstViolatedRule(request_msg)
        /\ is_valid <=> (FirstViolatedRule(request_msg) = NoReason)

(***************************************************************************)
(* Order of the requester's checks (specification SpecClient)              *)
(***************************************************************************)
\* the reply passed the status check, decoding and validation, its payload
\* is an object with a falsy success and its error is an object or absent
\* requests.post has returned a reply
Replied ==
    /\ cpc \in {"l69", "l74", "l77", "l81", "l86", "returned"}
    /\ ~reply.neterr

ReportsFailure ==
    /\ Replied
    /\ reply.status = 200
    /\ reply.decodes
    /\ reply.body.kind = "dict"
    /\ {"version", "id", "timestamp", "type", "payload"}
          \subseteq reply.body.has
    /\ reply.body.type = "response"
    /\ creq.kind = "dict"
    /\ "correlation_id" \in reply.body.has
    /\ reply.body.correlation_id = creq.id
    /\ reply.body.payload.kind = "dict"
    /\ "success" \in reply.body.payload.has
    /\ reply.body.payload.success \in {"False", "None"}
    /\ "error" \in reply.body.payload.has =>
          reply.body.payload.error.kind = "dict"

\* a non-200 status ends the call before the body is decoded or validated
StatusCheckedFirst ==
    (Replied /\ reply.status # 200) =>
        /\ cpc \in {"l69", "returned"}
        /\ cpc = "returned" =>
              outcome = Failure(Err("Server error", reply.status, ""))

\* the values of the reply that the returned error text is built from
Carried == { outcome.error.message }

\* C15 as stated: the reply is processed in the order status check, decode,
\* validate, success check; a non-200 status yields a server-error outcome
\* with the status code before the body is decoded or validated; a
\* validated reply with success=false yields a service-error outcome that
\* carries both error.code and error.message.
C15_CarriesCodeAndMessage ==
    /\ StatusCheckedFirst
    /\ (cpc = "returned" /\ ReportsFailure
          /\ {"code", "message"} \subseteq reply.body.payload.error.has) =>
          /\ outcome.error.kind = "Service error"
          /\ reply.body.payload.error.code \in Carried
          /\ reply.body.payload.error.message \in Carried

\* C15 amended: as above, but the service-error outcome carries only
\* error.message ("Unknown error" when the reply has no message); error.code
\* is not part of it.
C15_CarriesMessageOnly ==
    /\ StatusCheckedFirst
    /\ ReportsFailure =>
          /\ cpc \in {"l69", "l74", "l77", "l81", "returned"}
          /\ cpc = "returned" =>
                LET e == reply.body.payload.error
                IN  /\ outcome.result = NoneResult
                    /\ outcome.error.kind = "Service error"
                    /\ Carried =
                         { IF "error" \in reply.body.payload.has
                              /\ "message" \in e.has
                           THEN e.message ELSE "Unknown error" }

\* a validated reply with success=false, a code and a message was reported
C15_Witness ==
    /\ cpc = "returned"
    /\ ReportsFailure
    /\ reply.body.payload.success = "False"
    /\ reply.body.payload.error
          = ErrorDict("INVALID_REQUEST", "Unknown service requested")
    /\ outcome.error
          = Err("Service error", 0, "Unknown service requested")

(***************************************************************************)
(* Properties of the response builder (specification SpecFunctions)        *)
(***************************************************************************)
\* C14: for every request envelope and every combination of success, result
\* and error, create_a2a_response returns an envelope of type "response"
\* whose correlation_id is the request's id, whose recipient is the
\* request's sender, and whose payload carries success and exactly one of
\* result / error, chosen by the success flag.
C14_ExactlyOneOfResultError ==
    fpc = "responded" =>
        /\ ~fresp.raised
        /\ fresp.value.type = "response"
        /\ "correlation_id" \in fresp.value.has
        /\ fresp.value.correlation_id = freq.id
        /\ "recipient" \in fresp.value.has
        /\ fresp.value.recipient = freq.sender
        /\ "success" \in fresp.value.payload.has
        /\ fresp.value.payload.success = BoolTok(fargs.success)
        /\ "result" \in fresp.value.payload.has <=> fargs.success
        /\ "error" \in fresp.value.payload.has <=> ~fargs.success

(***************************************************************************)
(* Properties of the exchange (specification SpecExchange)                 *)
(***************************************************************************)
\* the endpoint answered with an envelope whose payload.success is true
SuccessSent(h) == IsEnvelope(h) /\ h.body.payload.success = "True"

\* the reply the requester holds is an envelope with payload.success false
FailureReceived ==
    /\ Replied
    /\ reply.decodes
    /\ reply.body.kind = "dict"
    /\ "payload" \in reply.body.has
    /\ reply.body.payload.success = "False"

\* C18: the service sends status 200 exactly when payload.success is true,
\* so the requester never takes its service-error branch: an exchange
\* answered with success=false ends at the status check as
\* "Server error: <status>", and the service's error.code and error.message
\* do not reach the caller.
C18_FailureSeenAsServerError ==
    /\ spc = "returned" => (http.status = 200 <=> SuccessSent(http))
    /\ outcome.error.kind # "Service error"
    /\ FailureReceived =>
          /\ reply.status # 200
          /\ cpc \in {"l69", "returned"}
          /\ cpc = "returned" =>
                outcome = Failure(Err("Server error", reply.status, ""))

\* the service answered the requester's call with INTERNAL_ERROR and the
\* caller was told "Server error: 500"
C18_Witness ==
    /\ cpc = "returned"
    /\ cfood = OtherFood("NoneType")
    /\ FailureReceived
    /\ reply.status = 500
    /\ reply.body.payload.error
          = ErrorDict("INTERNAL_ERROR", "Internal server error")
    /\ reply.body.correlation_id = creq.id
    /\ outcome = Failure(Err("Server error", 500, ""))

(***************************************************************************)
(* Properties of concurrent handling (specification SpecConcurrent)        *)
(***************************************************************************)
RECURSIVE RunAlone(_)
\* a call run from start to return with no other call in the process
RunAlone(l) ==
    IF l.pc = "returned" THEN l
    ELSE RunAlone(Advance(l, SAFE_FOODS, UNSAFE_FOODS, 1))

\* what a response says, the fresh id aside: status, success, result or
\* error, correlation_id, recipient
Answer(h) ==
    [propagated |-> h.propagated, status |-> h.status,
     body |-> [h.body EXCEPT !.id = NoneId]]

\* the answer to each request when it is the only one handled
IsolatedAnswer ==
    [raw \in ConcurrentInbound |->
        Answer(RunAlone([IdleLocal EXCEPT !.pc = "l117",
                                          !.inbound = raw]).http)]

\* C16: under any interleaving of concurrently handled requests the
\* response to each request is the one it gets when handled in isolation,
\* and the safe and unsafe food sets are never modified.
C16_AnswersAsInIsolation ==
    /\ safe_foods = SAFE_FOODS
    /\ unsafe_foods = UNSAFE_FOODS
    /\ \A w \in Workers :
         workers[w].pc = "returned" =>
            Answer(workers[w].http) = IsolatedAnswer[workers[w].inbound]

\* two calls for the same unknown food ran at the same time and both were
\* answered "unknown"
C16_Witness ==
    /\ workers[1].pc = "returned"
    /\ workers[2].pc = "returned"
    /\ workers[1].inbound = Decoded(FoodRequest(2, StrFood(Durian)))
    /\ workers[2].inbound = workers[1].inbound
    /\ workers[1].http.status = 200
    /\ workers[1].http.body.payload.result.status = "unknown"
    /\ workers[2].http.body.payload.result.status = "unknown"
    /\ workers[1].http.body.id # workers[2].http.body.id

====
